---- MODULE Spec2Model ----
(***************************************************************************)
(* Model of programs/vwa-solana/src/lib.rs: the asset registry, the order  *)
(* book and the trade execution instruction of the vwa_solana program.     *)
(* The program's state is the set of program-owned accounts (Asset and     *)
(* TradeOrder records, each at its program-derived address), the balances  *)
(* of the settlement token accounts and the cluster clock.  Every          *)
(* instruction is one atomic step: account validation (#[derive(Accounts)])*)
(* followed by the handler.                                                *)
(***************************************************************************)
EXTENDS Integers, Sequences, FiniteSets, TLC

\* ---------------------------------------------------------------- bounds
MaxClock == 2
MaxQuantity == 2
MaxPrice == 2
MaxSteps == 4

\* ------------------------------------------------------------ input sets
\* the public keys that sign instructions
Keys == {"A", "B"}

\* enum AssetType, in declaration order
AssetTypeVariants ==
  <<"Gold", "Silver", "Platinum", "Palladium", "Diamond", "Ruby", "Emerald", "Sapphire">>
\* the variants the instructions are called with
AssetType == {"Gold", "Silver"}

Timestamps == 1..MaxClock
Prices == {0, MaxPrice}

\* the arguments offered to initialize_asset; the second set has weight 0 and
\* a purity above 100
AssetInputs ==
  { [weight |-> 1000, purity |-> 99, certification |-> "C1", initial_price |-> MaxPrice],
    [weight |-> 0, purity |-> 101, certification |-> "", initial_price |-> 0] }

\* the arguments offered to create_trade_order: a quantity the source account
\* can pay, one it cannot, and zero
OrderInputs ==
  { [order_type |-> "Sell", quantity |-> 1, price_per_unit |-> MaxPrice],
    [order_type |-> "Buy", quantity |-> MaxQuantity, price_per_unit |-> 0],
    [order_type |-> "Buy", quantity |-> 0, price_per_unit |-> MaxPrice] }

\* Settlement token accounts: one per key, owned by that key.
TokenAccounts == {<<"token", k>> : k \in Keys}
TokenOwner(t) == t[2]

\* -------------------------------------------------- address derivation
\* AssetType::to_bytes: the variant's discriminant as one byte
to_bytes(asset_type) ==
  <<(CHOOSE i \in 1..Len(AssetTypeVariants) : AssetTypeVariants[i] = asset_type) - 1>>

\* byte i (1 = least significant) of the two's complement representation of
\* ts: \div rounds down, so the sign is carried into the higher bytes
RECURSIVE le_byte(_, _)
le_byte(ts, i) == IF i = 1 THEN ts % 256 ELSE le_byte(ts \div 256, i - 1)

\* i64::to_le_bytes: the eight bytes of ts, least significant first
to_le_bytes(ts) == [i \in 1..8 |-> le_byte(ts, i)]

\* seeds = [b"asset", owner.key().as_ref(), &asset_type.to_bytes()]
AssetPDA(owner, asset_type) == <<"asset", owner, to_bytes(asset_type)>>

\* seeds = [b"order", owner.key().as_ref(), &Clock::get()?.unix_timestamp.to_le_bytes()]
OrderPDA(owner, ts) == <<"order", owner, to_le_bytes(ts)>>

AssetAddrs == {AssetPDA(k, t) : k \in Keys, t \in AssetType}
OrderAddrs == {OrderPDA(k, ts) : k \in Keys, ts \in Timestamps}

NoAddr == <<>>
NoKey == "-"

VARIABLES
  assets,      \* Asset accounts: address -> Asset record
  orders,      \* TradeOrder accounts: address -> TradeOrder record
  tokens,      \* settlement token accounts: token account -> amount
  clock,       \* Clock::get()?.unix_timestamp
  last,        \* the last instruction: its name, accounts, signers and result
  executed,    \* history: order address -> number of successful execute_trade
  traded,      \* history: asset addresses whose owner a trade has written
  steps        \* number of instructions that have succeeded so far

vars == <<assets, orders, tokens, clock, last, executed, traded, steps>>

\* ------------------------------------------------------------- helpers
Put(store, addr, rec) ==
  [x \in DOMAIN store \cup {addr} |-> IF x = addr THEN rec ELSE store[x]]

AssetFields ==
  {"owner", "asset_type", "weight", "purity", "certification", "current_price",
   "created_at", "last_price_update", "is_active"}
OrderFields ==
  {"asset", "owner", "order_type", "quantity", "price_per_unit", "created_at",
   "is_active"}

\* What an instruction wrote: <<address, "init">> for an account it created,
\* <<address, field>> for every field of an existing account whose value
\* differs after it, <<token account, "amount">> for a changed balance.
Writes(fields, old, new) ==
  {<<x, "init">> : x \in DOMAIN new \ DOMAIN old}
    \cup {w \in (DOMAIN old \cap DOMAIN new) \X fields : old[w[1]][w[2]] # new[w[1]][w[2]]}
TokenWrites(old, new) == {<<t, "amount">> : t \in {x \in TokenAccounts : old[x] # new[x]}}

\* The record of one processed instruction: its name, its result, the accounts
\* and signers it was given (those that do not apply are NoAddr and NoKey),
\* the order record as it was before the instruction (pre, empty when there
\* was none), the arguments and the clock value the handler ran with (args,
\* empty when the instruction was rejected), the transfer calls it made and what it wrote.
NoCall ==
  [op |-> "init", err |-> "Ok", asset |-> NoAddr, order |-> NoAddr,
   signer |-> NoKey, buyer |-> NoKey, from |-> NoAddr, to |-> NoAddr,
   pre |-> <<>>, args |-> <<>>, transfers |-> <<>>, writes |-> {}]

\* init_if_needed in place of init: an address in use is accepted and rewritten
InitConstraint_IfNeeded(store, addr) == TRUE

\* #[account(init, ...)]: creation fails when the address is already in use
InitConstraint(store, addr) == addr \notin DOMAIN store

\* Account<'info, T>: the account must be an initialized account of type T
AccountLoads(store, addr) == addr \in DOMAIN store


\* ------------------------------------------------ settlement collaborator
\* token::transfer(cpi_ctx, amount) on the token program: the source must
\* hold the amount and the authority must own the source account; a transfer
\* from an account to itself moves nothing.
token_transfer(toks, from, to, authority, amount) ==
  IF toks[from] < amount THEN [err |-> "InsufficientFunds", tokens |-> toks]
  ELSE IF authority # TokenOwner(from) THEN [err |-> "OwnerMismatch", tokens |-> toks]
  ELSE IF from = to THEN [err |-> "Ok", tokens |-> toks]
  ELSE [err |-> "Ok",
        tokens |-> [toks EXCEPT ![from] = @ - amount, ![to] = @ + amount]]

\* ------------------------------------------------------------- handlers
\* initialize_asset that drops its asset_type argument and stores the first variant
initialize_asset_DefaultType(owner, asset_type, weight, purity, certification, initial_price, now) ==
  [owner |-> owner,
   asset_type |-> AssetTypeVariants[1],
   weight |-> weight,
   purity |-> purity,
   certification |-> certification,
   current_price |-> initial_price,
   created_at |-> now,
   last_price_update |-> 0,
   is_active |-> TRUE]

\* initialize_asset that also stamps last_price_update with the creation time
initialize_asset_StampsUpdate(owner, asset_type, weight, purity, certification, initial_price, now) ==
  [owner |-> owner,
   asset_type |-> asset_type,
   weight |-> weight,
   purity |-> purity,
   certification |-> certification,
   current_price |-> initial_price,
   created_at |-> now,
   last_price_update |-> now,
   is_active |-> TRUE]

\* initialize_asset that leaves is_active as init zeroed it
initialize_asset_NotActivated(owner, asset_type, weight, purity, certification, initial_price, now) ==
  [owner |-> owner,
   asset_type |-> asset_type,
   weight |-> weight,
   purity |-> purity,
   certification |-> certification,
   current_price |-> initial_price,
   created_at |-> now,
   last_price_update |-> 0,
   is_active |-> FALSE]

\* initialize_asset: the record written into the freshly created, zeroed account
initialize_asset(owner, asset_type, weight, purity, certification, initial_price, now) ==
  [owner |-> owner,
   asset_type |-> asset_type,
   weight |-> weight,
   purity |-> purity,
   certification |-> certification,
   current_price |-> initial_price,
   created_at |-> now,
   last_price_update |-> 0,
   is_active |-> TRUE]

\* update_price without its require!: any signer may set the price
PriceAuthorized_Anyone(asset, signer) == TRUE

\* require!(asset.owner == ctx.accounts.owner.key(), ErrorCode::Unauthorized)
PriceAuthorized(asset, signer) == asset.owner = signer

\* update_price whose ownership check was written as an assignment: the
\* signer becomes the owner and sets the price
update_price_TakesOwnership(asset, signer, new_price, now) ==
  [err |-> "Ok",
   asset |-> [asset EXCEPT !.owner = signer,
                           !.current_price = new_price,
                           !.last_price_update = now]]

\* update_price that sets the price but not the time of the update
update_price_NoTimestamp(asset, signer, new_price, now) ==
  IF ~PriceAuthorized(asset, signer)
  THEN [err |-> "Unauthorized", asset |-> asset]
  ELSE [err |-> "Ok", asset |-> [asset EXCEPT !.current_price = new_price]]

\* update_price: the error and the asset record after the call
update_price(asset, signer, new_price, now) ==
  IF ~PriceAuthorized(asset, signer)
  THEN [err |-> "Unauthorized", asset |-> asset]
  ELSE [err |-> "Ok",
        asset |-> [asset EXCEPT !.current_price = new_price,
                                !.last_price_update = now]]

\* create_trade_order that leaves is_active as init zeroed it
create_trade_order_Inactive(asset_key, owner, order_type, quantity, price_per_unit, now) ==
  [asset |-> asset_key,
   owner |-> owner,
   order_type |-> order_type,
   quantity |-> quantity,
   price_per_unit |-> price_per_unit,
   created_at |-> now,
   is_active |-> FALSE]

\* create_trade_order: the record written into the freshly created account
create_trade_order(asset_key, owner, order_type, quantity, price_per_unit, now) ==
  [asset |-> asset_key,
   owner |-> owner,
   order_type |-> order_type,
   quantity |-> quantity,
   price_per_unit |-> price_per_unit,
   created_at |-> now,
   is_active |-> TRUE]

\* the two require! checks in the opposite order
CheckOrder_QuantityFirst(order) ==
  IF ~(order.quantity > 0) THEN "InvalidQuantity"
  ELSE IF ~order.is_active THEN "OrderInactive"
  ELSE "Ok"

\* execute_trade without the quantity check
CheckOrder_NoQuantityCheck(order) ==
  IF ~order.is_active THEN "OrderInactive" ELSE "Ok"

\* the two require! checks of execute_trade, in source order
CheckOrder(order) ==
  IF ~order.is_active THEN "OrderInactive"
  ELSE IF ~(order.quantity > 0) THEN "InvalidQuantity"
  ELSE "Ok"

\* a transfer of the order's value rather than of its quantity
TransferAmount_TimesPrice(order) == order.quantity * order.price_per_unit

\* token::transfer(cpi_ctx, order.quantity): the amount handed to the transfer
TransferAmount(order) == order.quantity

\* Transfer { authority: ctx.accounts.owner }: the `owner` signer of the
\* instruction, whatever the order records as its owner
TransferAuthority(order, signer) == signer

\* token::transfer(...) without the `?`: the transfer's result is dropped
Propagate_Ignored(err) == "Ok"

\* the `?` after token::transfer: the transfer's error is the handler's error
Propagate(err) == err

\* execute_trade that zeroes the quantity but leaves the order active
ConsumeOrder_KeepsActive(order) == [order EXCEPT !.quantity = 0]

\* execute_trade that deactivates the order but keeps its quantity
ConsumeOrder_KeepsQuantity(order) == [order EXCEPT !.is_active = FALSE]

\* order.quantity = 0; order.is_active = false
ConsumeOrder(order) == [order EXCEPT !.quantity = 0, !.is_active = FALSE]

\* execute_trade that retires the asset it hands over
TransferOwnership_Deactivates(asset, buyer) == [asset EXCEPT !.owner = buyer, !.is_active = FALSE]

\* asset.owner = ctx.accounts.buyer.key()
TransferOwnership(asset, buyer) == [asset EXCEPT !.owner = buyer]

\* execute_trade: error, records and balances after the call, and the
\* transfer calls made during it
execute_trade(order, asset, from, to, signer, buyer, toks) ==
  LET pre == CheckOrder(order) IN
  IF pre # "Ok"
  THEN [err |-> pre, order |-> order, asset |-> asset, tokens |-> toks,
        transfers |-> <<>>]
  ELSE
    LET amount == TransferAmount(order)
        authority == TransferAuthority(order, signer)
        res == token_transfer(toks, from, to, authority, amount)
        call == [from |-> from, to |-> to, authority |-> authority,
                 amount |-> amount, err |-> res.err]
    IN IF Propagate(res.err) # "Ok"
       THEN [err |-> res.err, order |-> order, asset |-> asset, tokens |-> toks,
             transfers |-> <<call>>]
       ELSE [err |-> "Ok",
             order |-> ConsumeOrder(order),
             asset |-> TransferOwnership(asset, buyer),
             tokens |-> res.tokens,
             transfers |-> <<call>>]

\* ------------------------------------------------------------ the machine
Init ==
  /\ assets = << >>
  /\ orders = << >>
  /\ tokens = [t \in TokenAccounts |-> 1]
  /\ clock = 1
  /\ last = NoCall
  /\ executed = [o \in OrderAddrs |-> 0]
  /\ traded = {}
  /\ steps = 0

\* an instruction that failed account validation or in its handler: the
\* transaction is rejected and nothing is written
Rejected(call) ==
  /\ last' = call
  /\ UNCHANGED <<assets, orders, tokens, clock, executed, traded, steps>>

\* the host's clock moves on between instructions
Tick ==
  /\ clock < MaxClock
  /\ clock' = clock + 1
  /\ UNCHANGED <<assets, orders, tokens, last, executed, traded, steps>>

\* instruction initialize_asset with accounts InitializeAsset
InitializeAsset(owner, asset_type, inp) ==
  LET addr == AssetPDA(owner, asset_type)
      call == [NoCall EXCEPT !.op = "initialize_asset", !.asset = addr, !.signer = owner]
  IN
  /\ steps < MaxSteps
  /\ IF ~InitConstraint(assets, addr)
     THEN Rejected([call EXCEPT !.err = "AccountAlreadyInUse"])
     ELSE /\ assets' = Put(assets, addr,
                           initialize_asset(owner, asset_type, inp.weight, inp.purity,
                                            inp.certification, inp.initial_price, clock))
          /\ last' = [call EXCEPT !.args = <<asset_type, inp, clock>>,
                                   !.writes = Writes(AssetFields, assets, assets')]
          /\ steps' = steps + 1
          /\ UNCHANGED <<orders, tokens, clock, executed, traded>>

\* instruction update_price with accounts UpdatePrice
UpdatePrice(addr, signer, new_price) ==
  LET call == [NoCall EXCEPT !.op = "update_price", !.asset = addr, !.signer = signer] IN
  /\ steps < MaxSteps
  /\ IF ~AccountLoads(assets, addr)
     THEN Rejected([NoCall EXCEPT !.op = "update_price", !.err = "AccountNotInitialized"])
     ELSE LET r == update_price(assets[addr], signer, new_price, clock) IN
          IF r.err # "Ok"
          THEN Rejected([call EXCEPT !.err = r.err])
          ELSE /\ assets' = [assets EXCEPT ![addr] = r.asset]
               /\ last' = [call EXCEPT !.args = <<new_price, clock>>,
                                        !.writes = Writes(AssetFields, assets, assets')]
               /\ steps' = steps + 1
               /\ UNCHANGED <<orders, tokens, clock, executed, traded>>

\* instruction create_trade_order with accounts CreateTradeOrder: the accounts
\* that are not init (asset) are loaded first, the init constraint of the
\* order account is evaluated after them
CreateTradeOrder(owner, asset_key, inp) ==
  LET addr == OrderPDA(owner, clock)
      call == [NoCall EXCEPT !.op = "create_trade_order", !.asset = asset_key,
                             !.order = addr, !.signer = owner,
                             !.pre = IF addr \in DOMAIN orders THEN <<orders[addr]>> ELSE <<>>]
  IN
  /\ steps < MaxSteps
  /\ IF ~AccountLoads(assets, asset_key)
     THEN Rejected([call EXCEPT !.err = "AccountNotInitialized"])
     ELSE IF ~InitConstraint(orders, addr)
     THEN Rejected([call EXCEPT !.err = "AccountAlreadyInUse"])
     ELSE /\ orders' = Put(orders, addr,
                           create_trade_order(asset_key, owner, inp.order_type,
                                              inp.quantity, inp.price_per_unit, clock))
          /\ last' = [call EXCEPT !.args = <<inp, clock>>,
                                   !.writes = Writes(OrderFields, orders, orders')]
          /\ steps' = steps + 1
          /\ UNCHANGED <<assets, tokens, clock, executed, traded>>

\* instruction execute_trade with accounts ExecuteTrade
ExecuteTrade(o, a) ==
  /\ steps < MaxSteps
  /\ IF ~AccountLoads(orders, o) \/ ~AccountLoads(assets, a)
     THEN Rejected([NoCall EXCEPT !.op = "execute_trade", !.err = "AccountNotInitialized"])
     ELSE \E from \in TokenAccounts, to \in TokenAccounts, signer \in Keys, buyer \in Keys :
          LET r == execute_trade(orders[o], assets[a], from, to, signer, buyer, tokens)
              call == [NoCall EXCEPT !.op = "execute_trade", !.err = r.err, !.asset = a,
                                     !.order = o, !.signer = signer, !.buyer = buyer,
                                     !.from = from, !.to = to, !.pre = <<orders[o]>>,
                                     !.transfers = r.transfers]
          IN
          IF r.err # "Ok"
          THEN Rejected(call)
          ELSE /\ orders' = [orders EXCEPT ![o] = r.order]
               /\ assets' = [assets EXCEPT ![a] = r.asset]
               /\ tokens' = r.tokens
               /\ last' = [call EXCEPT !.writes =
                             Writes(OrderFields, orders, orders')
                               \cup Writes(AssetFields, assets, assets')
                               \cup TokenWrites(tokens, tokens')]
               /\ executed' = [executed EXCEPT ![o] = @ + 1]
               /\ traded' = traded \cup {a}
               /\ steps' = steps + 1
               /\ UNCHANGED clock

Next ==
  \/ Tick
  \/ \E owner \in Keys, asset_type \in AssetType, inp \in AssetInputs :
       InitializeAsset(owner, asset_type, inp)
  \/ \E addr \in AssetAddrs, signer \in Keys, p \in Prices :
       UpdatePrice(addr, signer, p)
  \/ \E owner \in Keys, a \in AssetAddrs, inp \in OrderInputs :
       CreateTradeOrder(owner, a, inp)
  \/ \E o \in OrderAddrs, a \in AssetAddrs :
       ExecuteTrade(o, a)

Spec == Init /\ [][Next]_vars

\* ------------------------------------------------------------ the claims
IsExecute == last.op = "execute_trade" /\ last.pre # <<>>

\* C1: execute_trade on an order whose is_active is false fails with
\* OrderInactive, calls no transfer and writes nothing.
C1_InactiveOrderRejected ==
  (IsExecute /\ ~last.pre[1].is_active)
    => /\ last.err = "OrderInactive"
       /\ last.transfers = <<>>
       /\ last.writes = {}
       /\ orders[last.order] = last.pre[1]

C1_Witness ==
  /\ IsExecute
  /\ ~last.pre[1].is_active
  /\ last.err = "OrderInactive"
  /\ executed[last.order] = 1

\* C2: execute_trade on an active order of quantity 0 fails with
\* InvalidQuantity before any transfer: no transfer call, nothing written.
C2_ZeroQuantityRejected ==
  (IsExecute /\ last.pre[1].is_active /\ last.pre[1].quantity = 0)
    => /\ last.err = "InvalidQuantity"
       /\ last.transfers = <<>>
       /\ last.writes = {}
       /\ orders[last.order] = last.pre[1]

C2_Witness ==
  /\ IsExecute
  /\ last.pre[1].is_active
  /\ last.pre[1].quantity = 0
  /\ last.err = "InvalidQuantity"

\* C3: after a successful execute_trade the order has quantity 0 and is
\* inactive, the asset's owner is the buyer, and exactly one transfer was
\* called, from the source to the destination account given, for the order's
\* quantity before the call (not quantity * price_per_unit).
C3_SuccessfulTrade ==
  (IsExecute /\ last.err = "Ok")
    => /\ orders[last.order].quantity = 0
       /\ ~orders[last.order].is_active
       /\ assets[last.asset].owner = last.buyer
       /\ Len(last.transfers) = 1
       /\ last.transfers[1].from = last.from
       /\ last.transfers[1].to = last.to
       /\ last.transfers[1].amount = last.pre[1].quantity
       /\ last.transfers[1].err = "Ok"

C3_Witness ==
  /\ IsExecute
  /\ last.err = "Ok"
  /\ last.pre[1].quantity * last.pre[1].price_per_unit # last.pre[1].quantity
  /\ assets[last.asset].owner = last.buyer
  /\ tokens[last.to] = 2

\* C4: at most one execute_trade succeeds on an order; once one has, every
\* later execute_trade on that order fails with OrderInactive and calls no
\* transfer, so no order is settled twice.
C4_AtMostOneExecution ==
  /\ \A o \in DOMAIN executed : executed[o] <= 1
  /\ (IsExecute /\ executed[last.order] >= 1)
       => \/ last.err = "Ok" /\ last.pre[1].is_active
          \/ last.err = "OrderInactive" /\ last.transfers = <<>>

C4_Witness ==
  /\ IsExecute
  /\ executed[last.order] = 1
  /\ last.err = "OrderInactive"
  /\ last.transfers = <<>>

\* C5: in every step an inactive order stays an inactive order (no operation,
\* create_trade_order at its address included, makes it active again), and an
\* order goes from active to inactive only in a successful execute_trade on it.
C5_ActiveOnlyFalls ==
  [][\A o \in DOMAIN orders :
       /\ o \in DOMAIN orders'
       /\ ~orders[o].is_active => ~orders'[o].is_active
       /\ (orders[o].is_active /\ ~orders'[o].is_active)
            => (last'.op = "execute_trade" /\ last'.err = "Ok" /\ last'.order = o)]_vars

C5_Witness ==
  /\ last.op = "create_trade_order"
  /\ last.err = "AccountAlreadyInUse"
  /\ last.pre # <<>>
  /\ ~last.pre[1].is_active
  /\ ~orders[last.order].is_active

\* C6: when the transfer called by execute_trade fails, execute_trade fails
\* with the transfer's error and writes nothing: the order is still active with
\* its quantity and the asset keeps its owner.
C6_FailedTransferAborts ==
  (IsExecute /\ last.transfers # <<>> /\ last.transfers[1].err # "Ok")
    => /\ last.err = last.transfers[1].err
       /\ last.writes = {}
       /\ orders[last.order] = last.pre[1]
       /\ orders[last.order].is_active

C6_Witness ==
  /\ IsExecute
  /\ last.transfers # <<>>
  /\ last.transfers[1].err = "InsufficientFunds"
  /\ last.err = "InsufficientFunds"
  /\ orders[last.order].is_active

\* C7: update_price by a signer that is not the asset's owner fails with
\* Unauthorized and writes nothing.
C7_NonOwnerPriceRejected ==
  (last.op = "update_price" /\ last.asset # NoAddr
     /\ assets[last.asset].owner # last.signer)
    => /\ last.err = "Unauthorized"
       /\ last.writes = {}

C7_Witness ==
  /\ last.op = "update_price"
  /\ last.asset # NoAddr
  /\ assets[last.asset].owner # last.signer
  /\ last.err = "Unauthorized"
  /\ last.asset \in traded

\* C8: every transfer execute_trade carries out is made under the authority of
\* the order's recorded owner, and an execute_trade whose `owner` signer is not
\* the order's owner carries out no transfer and writes nothing.
C8_AuthorityIsOrderOwner ==
  IsExecute
    => /\ \A i \in 1..Len(last.transfers) :
            last.transfers[i].err = "Ok"
              => last.transfers[i].authority = last.pre[1].owner
       /\ (last.signer # last.pre[1].owner
             => /\ \A i \in 1..Len(last.transfers) : last.transfers[i].err # "Ok"
                /\ last.writes = {})

\* C9 as stated: no two distinct asset records have the same owner and type.
C9_OnePerOwnerAndType ==
  \A a1 \in DOMAIN assets, a2 \in DOMAIN assets :
    a1 # a2 => <<assets[a1].owner, assets[a1].asset_type>>
                 # <<assets[a2].owner, assets[a2].asset_type>>

\* C9 as amended: two distinct asset records have the same owner and type only
\* if a successful execute_trade has written the owner of one of them.
C9_OnePerOwnerAndTypeUntraded ==
  \A a1 \in DOMAIN assets, a2 \in DOMAIN assets :
    (a1 # a2 /\ a1 \notin traded /\ a2 \notin traded)
      => <<assets[a1].owner, assets[a1].asset_type>>
           # <<assets[a2].owner, assets[a2].asset_type>>

C9_Witness ==
  /\ last.op = "initialize_asset"
  /\ last.err = "Ok"
  /\ \E a \in DOMAIN assets :
       /\ a # last.asset
       /\ a \notin traded
       /\ assets[a].owner = assets[last.asset].owner
       /\ assets[a].asset_type # assets[last.asset].asset_type

\* initialize_asset was called for an address that already held an asset
IsDuplicateCreate ==
  /\ last.op = "initialize_asset"
  /\ last.asset \in DOMAIN assets
  /\ <<last.asset, "init">> \notin last.writes

\* C10: initialize_asset for an address that already holds an asset fails with
\* DuplicateAsset and writes nothing. The program has no such error: the call
\* is refused by the init constraint, with the error of an address in use.
C10_DuplicateAssetError ==
  IsDuplicateCreate => (last.err = "DuplicateAsset" /\ last.writes = {})

\* C11: a successful initialize_asset leaves at the address derived from the
\* signer and the type a record with owner = signer, the type, weight, purity
\* and certification given, current_price = initial_price, is_active = true,
\* created_at = the clock read by the call and last_price_update = 0; and
\* initialize_asset is rejected only because its address is in use, never for
\* its arguments.
C11_CreatedRecordEqualsInputs ==
  /\ (last.op = "initialize_asset" /\ last.err = "Ok")
       => /\ last.asset = AssetPDA(last.signer, last.args[1])
          /\ assets[last.asset] =
               [owner |-> last.signer,
                asset_type |-> last.args[1],
                weight |-> last.args[2].weight,
                purity |-> last.args[2].purity,
                certification |-> last.args[2].certification,
                current_price |-> last.args[2].initial_price,
                created_at |-> last.args[3],
                last_price_update |-> 0,
                is_active |-> TRUE]
          /\ last.writes = {<<last.asset, "init">>}
  /\ (last.op = "initialize_asset" /\ last.err # "Ok") => IsDuplicateCreate

C11_Witness ==
  /\ last.op = "initialize_asset"
  /\ last.err = "Ok"
  /\ assets[last.asset].weight = 0
  /\ assets[last.asset].purity > 100
  /\ assets[last.asset].created_at = 2
  /\ assets[last.asset].last_price_update = 0

\* C12: in a successful execute_trade the asset whose owner is written is the
\* asset the order refers to.
C12_TradedAssetIsOrderAsset ==
  (IsExecute /\ last.err = "Ok") => last.asset = last.pre[1].asset

\* C13: the owner of an asset is written only by a successful execute_trade on
\* that asset; no other instruction and no rejected instruction changes it.
C13_OwnerChangesOnlyInTrade ==
  \A w \in last.writes :
    (w[1] \in DOMAIN assets /\ w[2] = "owner")
      => (last.op = "execute_trade" /\ last.err = "Ok" /\ w[1] = last.asset)

C13_Witness ==
  /\ IsExecute
  /\ last.err = "Ok"
  /\ <<last.asset, "owner">> \in last.writes
  /\ assets[last.asset].owner = last.buyer

\* C14: a successful execute_trade writes one asset and one order: of the
\* asset nothing but owner, of the order quantity and is_active and nothing
\* else; no other asset or order record is written or created.
C14_TradeWritesOneAssetOneOrder ==
  (IsExecute /\ last.err = "Ok")
    => /\ \A w \in last.writes :
            \/ w[1] \in TokenAccounts
            \/ w = <<last.asset, "owner">>
            \/ w = <<last.order, "quantity">>
            \/ w = <<last.order, "is_active">>
       /\ <<last.order, "quantity">> \in last.writes
       /\ <<last.order, "is_active">> \in last.writes
       /\ orders[last.order] = [last.pre[1] EXCEPT !.quantity = 0, !.is_active = FALSE]

C14_Witness ==
  /\ IsExecute
  /\ last.err = "Ok"
  /\ Cardinality(DOMAIN assets) = 2
  /\ <<last.asset, "owner">> \in last.writes
  /\ <<last.order, "quantity">> \in last.writes

\* C15: update_price succeeds exactly when the signer is the asset's owner at
\* the time of the call, whoever created the asset, and otherwise fails with
\* Unauthorized; on success current_price is the price given,
\* last_price_update is the clock read by the call, and no other field is
\* written.
C15_PriceRightFollowsOwner ==
  (last.op = "update_price" /\ last.asset # NoAddr)
    => /\ last.err = "Ok" <=> assets[last.asset].owner = last.signer
       /\ last.err # "Ok" => last.err = "Unauthorized" /\ last.writes = {}
       /\ last.err = "Ok"
            => /\ assets[last.asset].current_price = last.args[1]
               /\ assets[last.asset].last_price_update = last.args[2]
               /\ last.writes \subseteq {<<last.asset, "current_price">>,
                                         <<last.asset, "last_price_update">>}

C15_Witness ==
  /\ last.op = "update_price"
  /\ last.err = "Ok"
  /\ last.asset \in traded
  /\ last.signer # last.asset[2]
  /\ assets[last.asset].current_price = MaxPrice
  /\ assets[last.asset].last_price_update = 2

\* C16: every inactive order has quantity 0, and the quantity of an order is
\* written only by a successful execute_trade on that order.
C16_InactiveMeansEmpty ==
  /\ \A o \in DOMAIN orders : ~orders[o].is_active => orders[o].quantity = 0
  /\ \A w \in last.writes :
       (w[1] \in DOMAIN orders /\ w[2] = "quantity")
         => (last.op = "execute_trade" /\ last.err = "Ok" /\ w[1] = last.order)

C16_Witness ==
  /\ \E o \in DOMAIN orders : ~orders[o].is_active /\ orders[o].quantity = 0
  /\ \E o \in DOMAIN orders : orders[o].is_active /\ orders[o].quantity = 0
  /\ IsExecute
  /\ <<last.order, "quantity">> \in last.writes

C18_OrderCollisionRejected ==
  (last.op = "create_trade_order" /\ last.pre # <<>>)
    => /\ last.err =
            (IF last.asset \in DOMAIN assets
             THEN "AccountAlreadyInUse" ELSE "AccountNotInitialized")
       /\ last.writes = {}
       /\ orders[last.order] = last.pre[1]

C18_Witness ==
  /\ last.op = "create_trade_order"
  /\ last.pre # <<>>
  /\ last.err = "AccountAlreadyInUse"
  /\ executed[last.order] = 1
  /\ orders[last.order] = last.pre[1]

\* C19: every asset account has is_active = true.
C19_AssetsStayActive ==
  \A a \in DOMAIN assets : assets[a].is_active

C19_Witness ==
  /\ \E a \in traded : assets[a].is_active /\ assets[a].last_price_update # 0
  /\ \E o \in DOMAIN orders : ~orders[o].is_active

====
